---- MODULE Spec2Model ----
(***************************************************************************)
(* The backup store (src/src/utils/backup.rs) and the risk classifier      *)
(* (src/src/utils/command_analyzer.rs) of aichat.                          *)
(*                                                                         *)
(* Part 1 models BackupManager as a state machine over the user's files,   *)
(* the index file and the backup subdirectories.  Part 2 models            *)
(* CommandAnalysis::analyze as a function of the command text.             *)
(***************************************************************************)
EXTENDS Integers, Sequences, FiniteSets, TLC

VARIABLES
    files,      \* the user's files and directories: path -> bytes, Dir, or Absent
    indexFile,  \* <root>/backup_index.json: whether it exists, and the JSON map id -> BackupEntry it holds
    subdirs,    \* <root>/<id>/ for the ids whose subdirectory exists: base name -> bytes
    now,        \* the system clock (an instant, in hours)
    nextId,     \* the number of the next UUID drawn
    calls,      \* history: id -> the user's files as they were when create_backup drew that id
    deleted,    \* history: the ids delete_backup has reported deleted
    last,       \* the last call: its name, argument and result, the call of it that failed,
                \* the value it returned (restore_backup: the user's files before it;
                \* delete_backup: whether the subdirectory was there; cleanup_old_backups:
                \* the number it deleted) and the backup paths it warned were not found
    command,    \* the command text handed to analyze
    analysis,   \* the CommandAnalysis returned for it, or NoAnalysis
    procs       \* the processes running create_backup or delete_backup one file system
                \* call at a time: where each is in its call, and the locals of the call

vars == <<files, indexFile, subdirs, now, nextId, calls, deleted, last, command, analysis, procs>>
storeVars == <<files, indexFile, subdirs, now, nextId, calls, deleted, last>>
analyzerVars == <<command, analysis>>

(***************************************************************************)
(* Bounds of the model.                                                    *)
(***************************************************************************)
MaxBackups == 2     \* create_backup is called at most this many times
MaxPieces == 4      \* a generated command is made of at most this many pieces
MaxWideBackups == 1 \* over the wider file system create_backup is called at most this many times

(***************************************************************************)
(* Part 1: the backup store.                                               *)
(***************************************************************************)
Absent == "<absent>"
\* What the file system holds at a path that is a directory.
Dir == "<dir>"
Contents == {"x", "y"}
FilePaths == {"d1/a"}
DirPaths == {"d1"}
InputPaths == FilePaths \cup DirPaths
StoreCommands == {"rm a"}
\* The UTC offsets (hours) of a local time zone: standard time, and standard and daylight time.
StandardTime == {0}
TzOffsets == {0, 1}

\* Path::exists, Path::is_file: fs holds every path that can exist.
PathExists(fs, path) == path \in DOMAIN fs /\ fs[path] # Absent
PathIsFile(fs, path) == PathExists(fs, path) /\ fs[path] # Dir
\* Path::file_name: the text after the last separator.
FileName(path) ==
    LET seps == {i \in 1..Len(path) : SubSeq(path, i, i) = "/"}
    IN  IF seps = {} THEN path
        ELSE SubSeq(path, (CHOOSE i \in seps : \A j \in seps : j <= i) + 1, Len(path))

\* Path::parent: the text before the last separator.
Parent(path) ==
    LET seps == {i \in 1..Len(path) : SubSeq(path, i, i) = "/"}
    IN  IF seps = {} THEN ""
        ELSE SubSeq(path, 1, (CHOOSE i \in seps : \A j \in seps : j <= i) - 1)
\* create_dir_all that creates nothing.
CreateDirAllNothing(fs, dir) == fs

\* fs::create_dir_all(dir): directories are one level deep in the model.
CreateDirAll(fs, dir) ==
    IF dir \in DOMAIN fs /\ fs[dir] = Absent THEN [fs EXCEPT ![dir] = Dir] ELSE fs
\* A file system in which what exists lies in a directory that exists.
WellFormed(fs) ==
    \A path \in DOMAIN fs :
        (fs[path] # Absent /\ Parent(path) \in DOMAIN fs) => fs[Parent(path)] = Dir
\* The file systems over the given files and directories.
FileSystems(filePaths, dirPaths) ==
    {fs \in [filePaths \cup dirPaths -> Contents \cup {Absent, Dir}] :
        /\ \A path \in filePaths : fs[path] # Dir
        /\ \A path \in dirPaths : fs[path] \in {Dir, Absent}
        /\ WellFormed(fs)}

Uuid(n) == <<"uuid", n>>
\* Local::now().to_rfc3339(): the local date and time, then the UTC offset.
ToRfc3339(instant, offset) == <<instant + offset, offset>>
\* String::cmp on two such strings: the fixed-width local date-time decides, then the offset.
TimestampLess(a, b) == a[1] < b[1] \/ (a[1] = b[1] /\ a[2] < b[2])
\* Sha256::digest of the bytes, as a hex string.
Sha256Hex(bytes) == <<"sha256", bytes>>
Description(cmd) == <<"Backup before executing: ", cmd>>

EmptyMap == [k \in {} |-> k]
MapInsert(m, k, v) == [x \in DOMAIN m \cup {k} |-> IF x = k THEN v ELSE m[x]]
MapRemove(m, k) == [x \in DOMAIN m \ {k} |-> m[x]]
MapValues(m) == {m[k] : k \in DOMAIN m}

Ok == "Ok"
NotFound == "NotFound"
\* The error of a file system call that fails, and of an index that is not JSON.
IoError == "IoError"
SerializationError == "SerializationError"

\* An operation runs with at most one of its file system calls failing: fault.site names
\* the call, fault.at the turn of the loop it is in (0 outside a loop).  A call that
\* fails changes nothing on disk.
Fault(site, at) == [site |-> site, at |-> at]
NoFault == Fault("none", 0)

\* File::create + serde_json::to_writer_pretty: the JSON document written for a map.
WriteIndex(entries) == [exists |-> TRUE, parses |-> TRUE, json |-> entries]
\* File::create alone: the index file truncated, to_writer_pretty having failed.
TruncatedIndex == [exists |-> TRUE, parses |-> FALSE, json |-> EmptyMap]
\* The state of the index path before anything was written to it.
NoIndexFile == [exists |-> FALSE, parses |-> FALSE, json |-> EmptyMap]
\* self.index_file.exists()
IndexExists(ix) == ix.exists
\* serde_json::from_reader succeeds on the index file.
IndexParses(ix) == ix.parses
\* File::open + serde_json::from_reader: the map held by an existing index file.
ReadIndex(ix) == ix.json

\* add_to_index storing every entry under one fixed key.
AddToIndexWriteUnderOneKey(entries, entry) ==
    WriteIndex(MapInsert(entries, Uuid(0), entry))

\* add_to_index writing its own entry alone.
AddToIndexWriteOwnOnly(entries, entry) == WriteIndex(MapInsert(EmptyMap, entry.id, entry))

\* The end of add_to_index: the entry inserted into the map that was read, and the map
\* written over the index file.
AddToIndexWrite(entries, entry) == WriteIndex(MapInsert(entries, entry.id, entry))

\* The end of remove_from_index: the id removed from the map that was read, and the map
\* written over the index file.
RemoveFromIndexWrite(entries, backup_id) == WriteIndex(MapRemove(entries, backup_id))

\* add_to_index starting from an empty map when the index file is not JSON.
AddToIndexStartsOver(ix, entry, fault) ==
    [res |-> Ok,
     index |-> AddToIndexWrite(IF IndexExists(ix) /\ IndexParses(ix) THEN ReadIndex(ix)
                               ELSE EmptyMap, entry)]

\* BackupManager::add_to_index: its result and the index file after the call.
AddToIndex(ix, entry, fault) ==
    IF IndexExists(ix) /\ fault.site = "add_open" THEN [res |-> IoError, index |-> ix]
    ELSE IF IndexExists(ix) /\ ~IndexParses(ix) THEN [res |-> SerializationError, index |-> ix]
    ELSE LET entries == IF IndexExists(ix) THEN ReadIndex(ix) ELSE EmptyMap
         IN  IF fault.site = "add_create" THEN [res |-> IoError, index |-> ix]
             ELSE IF fault.site = "add_write" THEN [res |-> IoError, index |-> TruncatedIndex]
             ELSE [res |-> Ok, index |-> AddToIndexWrite(entries, entry)]

\* remove_from_index that never rewrites the index file.
RemoveFromIndexNoWrite(ix, backup_id, fault) == [res |-> Ok, index |-> ix]

\* BackupManager::remove_from_index: its result and the index file after the call.
RemoveFromIndex(ix, backup_id, fault) ==
    IF ~IndexExists(ix) THEN [res |-> Ok, index |-> ix]
    ELSE IF fault.site = "remove_open" THEN [res |-> IoError, index |-> ix]
    ELSE IF ~IndexParses(ix) THEN [res |-> SerializationError, index |-> ix]
    ELSE IF fault.site = "remove_create" THEN [res |-> IoError, index |-> ix]
    ELSE IF fault.site = "remove_write" THEN [res |-> IoError, index |-> TruncatedIndex]
    ELSE [res |-> Ok, index |-> RemoveFromIndexWrite(ReadIndex(ix), backup_id)]

\* BackupManager::calculate_file_hash: reads the file at path and digests its bytes.
CalculateFileHash(fs, path) == Sha256Hex(fs[path])

\* A backup path that keeps the whole original path under the subdirectory.
BackupPathKeepsDirs(id, path) == <<id, path>>

\* backup_subdir.join(file_name): <root>/<id>/<base name>.
BackupPath(id, path) == <<id, FileName(path)>>
BackupPathExists(dirs, bp) == bp[1] \in DOMAIN dirs /\ bp[2] \in DOMAIN dirs[bp[1]]

\* The loop of create_backup copying and recording nothing.
BackupLoopRecordsNothing(paths, k, fs, id, acc, fault) == acc

\* The loop of create_backup over paths, from turn k on: acc.dir is the subdirectory so
\* far, acc.backup_files the BackupFiles recorded so far, acc.res the error that ended it.
RECURSIVE BackupLoop(_, _, _, _, _, _)
BackupLoop(paths, k, fs, id, acc, fault) ==
    IF k > Len(paths) THEN acc
    ELSE LET path == paths[k]
         IN  IF ~PathExists(fs, path) THEN BackupLoop(paths, k + 1, fs, id, acc, fault)
             ELSE IF PathIsFile(fs, path)
                  THEN IF fault = Fault("copy", k) THEN [acc EXCEPT !.res = IoError]
                       ELSE LET copied == [acc EXCEPT !.dir = MapInsert(acc.dir, FileName(path), fs[path])]
                            IN  IF fault = Fault("read", k) THEN [copied EXCEPT !.res = IoError]
                                ELSE BackupLoop(paths, k + 1, fs, id,
                                       [copied EXCEPT !.backup_files = Append(acc.backup_files,
                                           [original_path |-> path,
                                            backup_path |-> BackupPath(id, path),
                                            file_hash |-> CalculateFileHash(fs, path)])],
                                       fault)
                  ELSE BackupLoop(paths, k + 1, fs, id, acc, fault)

\* create_backup that puts the entry built so far in the index when its loop fails.
CreateBackupIndexesPartial(fs, ix, dirs, id, timestamp, cmd, paths, fault) ==
    LET acc == BackupLoop(paths, 1, fs, id,
                          [res |-> Ok, dir |-> EmptyMap, backup_files |-> <<>>], fault)
        entry == [id |-> id, timestamp |-> timestamp, command |-> cmd,
                  files |-> acc.backup_files, description |-> Description(cmd)]
    IN  [res |-> acc.res, entry |-> IF acc.res = Ok THEN entry ELSE <<>>,
         subdirs |-> MapInsert(dirs, id, acc.dir),
         index |-> AddToIndex(ix, entry, NoFault).index]

\* BackupManager::create_backup: its result, the entry built, the subdirectory written and
\* the new index.
CreateBackupResult(fs, ix, dirs, id, timestamp, cmd, paths, fault) ==
    IF fault.site = "create_dir_all"
    THEN [res |-> IoError, entry |-> <<>>, subdirs |-> dirs, index |-> ix]
    ELSE LET acc == BackupLoop(paths, 1, fs, id,
                               [res |-> Ok, dir |-> EmptyMap, backup_files |-> <<>>], fault)
             entry == [id |-> id, timestamp |-> timestamp, command |-> cmd,
                       files |-> acc.backup_files, description |-> Description(cmd)]
             added == AddToIndex(ix, entry, fault)
         IN  IF acc.res # Ok
             THEN [res |-> acc.res, entry |-> <<>>,
                   subdirs |-> MapInsert(dirs, id, acc.dir), index |-> ix]
             ELSE [res |-> added.res, entry |-> IF added.res = Ok THEN entry ELSE <<>>,
                   subdirs |-> MapInsert(dirs, id, acc.dir), index |-> added.index]

\* BackupManager::get_backup_entry.
GetBackupEntryResult(ix, backup_id, fault) ==
    IF ~IndexExists(ix) THEN [res |-> NotFound, entry |-> <<>>]
    ELSE IF fault.site = "get_open" THEN [res |-> IoError, entry |-> <<>>]
    ELSE IF ~IndexParses(ix) THEN [res |-> SerializationError, entry |-> <<>>]
    ELSE IF backup_id \in DOMAIN ReadIndex(ix)
         THEN [res |-> Ok, entry |-> ReadIndex(ix)[backup_id]]
         ELSE [res |-> NotFound, entry |-> <<>>]

\* The loop of restore_backup with the copy left out.
RestoreLoopNoCopy(backup_files, k, fs, dirs, fault) ==
    [res |-> Ok, files |-> fs, warned |-> <<>>]

\* The loop of restore_backup over entry.files, from turn k on: its result, the user's
\* files after it, and the backup paths it warned were not found.
RECURSIVE RestoreLoop(_, _, _, _, _)
RestoreLoop(backup_files, k, fs, dirs, fault) ==
    IF k > Len(backup_files) THEN [res |-> Ok, files |-> fs, warned |-> <<>>]
    ELSE LET file == backup_files[k]
             made == CreateDirAll(fs, Parent(file.original_path))
             skipped == RestoreLoop(backup_files, k + 1, fs, dirs, fault)
         IN  IF BackupPathExists(dirs, file.backup_path)
             THEN IF fault = Fault("create_dir_all", k)
                  THEN [res |-> IoError, files |-> fs, warned |-> <<>>]
                  ELSE IF fault = Fault("copy", k)
                  THEN [res |-> IoError, files |-> made, warned |-> <<>>]
                  ELSE RestoreLoop(backup_files, k + 1,
                         [made EXCEPT ![file.original_path] =
                                          dirs[file.backup_path[1]][file.backup_path[2]]],
                         dirs, fault)
             ELSE [skipped EXCEPT !.warned = <<file.backup_path>> \o @]

\* BackupManager::restore_backup.
RestoreBackupResult(fs, ix, dirs, backup_id, fault) ==
    LET got == GetBackupEntryResult(ix, backup_id, fault)
    IN  IF got.res # Ok THEN [res |-> got.res, files |-> fs, warned |-> <<>>]
        ELSE RestoreLoop(got.entry.files, 1, fs, dirs, fault)

\* list.sort_by(|a, b| b.timestamp.cmp(&a.timestamp)) over the values of the map.
RECURSIVE SortDescending(_)
SortDescending(S) ==
    IF S = {} THEN <<>>
    ELSE LET m == CHOOSE e \in S : \A o \in S : ~TimestampLess(e.timestamp, o.timestamp)
         IN  <<m>> \o SortDescending(S \ {m})

\* The ascending sort with its comparison the wrong way round.
SortAscendingReversed(S) == SortDescending(S)

\* backups.sort_by(|a, b| a.timestamp.cmp(&b.timestamp)).
RECURSIVE SortAscending(_)
SortAscending(S) ==
    IF S = {} THEN <<>>
    ELSE LET m == CHOOSE e \in S : \A o \in S : ~TimestampLess(o.timestamp, e.timestamp)
         IN  <<m>> \o SortAscending(S \ {m})

SeqToSet(s) == {s[i] : i \in 1..Len(s)}

\* list_backups bailing out like get_backup_entry when there is no index file.
ListBackupsBailsWithoutIndex(ix, fault) ==
    IF ~IndexExists(ix) THEN [res |-> NotFound, list |-> <<>>]
    ELSE [res |-> Ok, list |-> SortDescending(MapValues(ReadIndex(ix)))]

\* BackupManager::list_backups.
ListBackupsResult(ix, fault) ==
    IF ~IndexExists(ix) THEN [res |-> Ok, list |-> <<>>]
    ELSE IF fault.site = "list_open" THEN [res |-> IoError, list |-> <<>>]
    ELSE IF ~IndexParses(ix) THEN [res |-> SerializationError, list |-> <<>>]
    ELSE [res |-> Ok, list |-> SortDescending(MapValues(ReadIndex(ix)))]

\* delete_backup without the get_backup_entry lookup.
DeleteBackupNoLookup(ix, dirs, backup_id, fault) ==
    [res |-> Ok,
     subdirs |-> IF backup_id \in DOMAIN dirs THEN MapRemove(dirs, backup_id) ELSE dirs,
     removed_dir |-> backup_id \in DOMAIN dirs,
     index |-> RemoveFromIndex(ix, backup_id, fault).index]

\* delete_backup that rewrites the index and leaves the subdirectory in place.
DeleteBackupKeepsSubdir(ix, dirs, backup_id, fault) ==
    LET got == GetBackupEntryResult(ix, backup_id, fault)
        removed == RemoveFromIndex(ix, backup_id, fault)
    IN  IF got.res # Ok
        THEN [res |-> got.res, index |-> ix, subdirs |-> dirs, removed_dir |-> FALSE]
        ELSE [res |-> removed.res, subdirs |-> dirs, removed_dir |-> FALSE,
              index |-> removed.index]

\* BackupManager::delete_backup.
DeleteBackupResult(ix, dirs, backup_id, fault) ==
    LET got == GetBackupEntryResult(ix, backup_id, fault)
        removed == RemoveFromIndex(ix, backup_id, fault)
    IN  IF got.res # Ok
        THEN [res |-> got.res, index |-> ix, subdirs |-> dirs, removed_dir |-> FALSE]
        ELSE IF backup_id \in DOMAIN dirs /\ fault.site = "remove_dir_all"
        THEN [res |-> IoError, index |-> ix, subdirs |-> dirs, removed_dir |-> FALSE]
        ELSE [res |-> removed.res,
              subdirs |-> IF backup_id \in DOMAIN dirs THEN MapRemove(dirs, backup_id) ELSE dirs,
              removed_dir |-> backup_id \in DOMAIN dirs,
              index |-> removed.index]

\* The loop of cleanup_old_backups, from turn k on: delete_backup on each of the entries,
\* in order.  done: the ids delete_backup has reported deleted so far.
RECURSIVE DeleteLoop(_, _, _, _, _, _)
DeleteLoop(backups, k, ix, dirs, done, fault) ==
    IF k > Len(backups) THEN [res |-> Ok, index |-> ix, subdirs |-> dirs, done |-> done]
    ELSE LET d == DeleteBackupResult(ix, dirs, backups[k].id,
                                     IF fault.at = k THEN fault ELSE NoFault)
         IN  IF d.res # Ok
             THEN [res |-> d.res, index |-> d.index, subdirs |-> d.subdirs, done |-> done]
             ELSE DeleteLoop(backups, k + 1, d.index, d.subdirs, done \cup {backups[k].id}, fault)

\* BackupManager::cleanup_old_backups.
CleanupOldBackupsResult(ix, dirs, keep_count, fault) ==
    LET listed == ListBackupsResult(ix, fault)
        backups == listed.list
    IN  IF listed.res # Ok
        THEN [res |-> listed.res, index |-> ix, subdirs |-> dirs, to_delete |-> 0, done |-> {}]
        ELSE IF Len(backups) <= keep_count
        THEN [res |-> Ok, index |-> ix, subdirs |-> dirs, to_delete |-> 0, done |-> {}]
        ELSE LET sorted == SortAscending(SeqToSet(backups))
                 to_delete == Len(backups) - keep_count
                 d == DeleteLoop(SubSeq(sorted, 1, to_delete), 1, ix, dirs, {}, fault)
             IN  [res |-> d.res, index |-> d.index, subdirs |-> d.subdirs,
                  to_delete |-> to_delete, done |-> d.done]


(***************************************************************************)
(* Part 2: the risk classifier.  A command is a string; the only white     *)
(* space in the commands of the model is the space character.              *)
(***************************************************************************)
\* str::contains, str::starts_with, str::ends_with
Contains(s, sub) ==
    \E i \in 1..(Len(s) - Len(sub) + 1) : SubSeq(s, i, i + Len(sub) - 1) = sub
StartsWith(s, prefix) == Len(prefix) <= Len(s) /\ SubSeq(s, 1, Len(prefix)) = prefix
EndsWith(s, suffix) ==
    Len(suffix) <= Len(s) /\ SubSeq(s, Len(s) - Len(suffix) + 1, Len(s)) = suffix

\* str::split on a one-character separator: the pieces between the separators.
RECURSIVE Split(_, _)
Split(s, sep) ==
    IF ~Contains(s, sep) THEN <<s>>
    ELSE LET i == CHOOSE k \in 1..Len(s) :
                     SubSeq(s, k, k) = sep /\ \A j \in 1..(k - 1) : SubSeq(s, j, j) # sep
         IN  <<SubSeq(s, 1, i - 1)>> \o Split(SubSeq(s, i + 1, Len(s)), sep)

\* str::split_whitespace: the maximal runs of characters that are not white space.
RECURSIVE SplitWhitespace(_)
SplitWhitespace(s) ==
    IF Len(s) = 0 THEN <<>>
    ELSE IF SubSeq(s, 1, 1) = " " THEN SplitWhitespace(SubSeq(s, 2, Len(s)))
    ELSE LET n == CHOOSE k \in 1..Len(s) :
                     /\ \A j \in 1..k : SubSeq(s, j, j) # " "
                     /\ (k = Len(s) \/ SubSeq(s, k + 1, k + 1) = " ")
         IN  <<SubSeq(s, 1, n)>> \o SplitWhitespace(SubSeq(s, n + 1, Len(s)))

\* CommandOperation::is_destructive, CommandOperation::needs_backup
IsDestructive(op) == op \in {"Delete", "Modify"}
NeedsBackup(op) == op \in {"Delete", "Modify", "Move", "Write"}

\* The rank closure of most_dangerous.
Rank(op) ==
    CASE op = "Delete" -> 5
      [] op = "System" -> 4
      [] op = "Modify" -> 3
      [] op \in {"Move", "Write"} -> 2
      [] op \in {"Execute", "Network", "Copy", "Create"} -> 1
      [] op \in {"Read", "Unknown"} -> 0

\* most_dangerous that keeps the later operation.
MostDangerousKeepsLast(op1, op2) == op2

\* CommandAnalysis::most_dangerous
MostDangerous(op1, op2) == IF Rank(op1) >= Rank(op2) THEN op1 ELSE op2

\* The match on cmd_word in analyze: the operation of one pipeline stage.
StageOperation(pipe_cmd, cmd_word) ==
    CASE cmd_word \in {"rm", "rmdir"} -> "Delete"
      [] cmd_word \in {"mv", "rename"} -> "Move"
      [] cmd_word = "cp" -> "Copy"
      [] cmd_word \in {"touch", "mkdir"} -> "Create"
      [] cmd_word \in {"sed", "awk"} /\ Contains(pipe_cmd, "-i") -> "Modify"
      [] cmd_word \in {"cat", "less", "more", "grep", "find", "ls"} -> "Read"
      [] cmd_word = "echo" /\ Contains(pipe_cmd, ">") -> "Write"
      [] cmd_word = "tee" -> "Write"
      [] cmd_word \in {"curl", "wget", "ssh", "scp", "rsync"} -> "Network"
      [] cmd_word \in {"sudo", "systemctl", "service"} -> "System"
      [] cmd_word \in {"sh", "bash", "zsh", "python", "node", "ruby"} -> "Execute"
      [] cmd_word = "xargs" ->
            IF Contains(pipe_cmd, " rm ") \/ EndsWith(pipe_cmd, " rm") THEN "Delete"
            ELSE IF Contains(pipe_cmd, " mv ") THEN "Move"
            ELSE "Unknown"
      [] OTHER -> "Unknown"

\* The loop of analyze over pipe_parts: the most dangerous operation seen.
RECURSIVE PipeLoop(_, _)
PipeLoop(pipe_parts, most_dangerous_op) ==
    IF pipe_parts = <<>> THEN most_dangerous_op
    ELSE LET pipe_cmd == Head(pipe_parts)
             parts == SplitWhitespace(pipe_cmd)
         IN  IF parts = <<>> THEN PipeLoop(Tail(pipe_parts), most_dangerous_op)
             ELSE PipeLoop(Tail(pipe_parts),
                           MostDangerous(most_dangerous_op, StageOperation(pipe_cmd, parts[1])))

\* backup.rs is_common_command
IsCommonCommand(word) ==
    word \in {"ls", "cd", "pwd", "echo", "cat", "grep", "find", "sed", "awk", "rm", "mv",
              "cp", "mkdir", "touch", "chmod", "chown", "sudo", "curl", "wget", "git",
              "docker", "npm", "yarn", "cargo", "python", "node", "bash", "sh", "zsh"}

\* The loop of extract_file_paths_from_command without the is_file test.
RECURSIVE ExtractLoopDirsToo(_, _, _)
ExtractLoopDirsToo(words, fs, paths) ==
    IF words = <<>> THEN paths
    ELSE LET word == Head(words)
         IN  IF StartsWith(word, "-") \/ IsCommonCommand(word)
             THEN ExtractLoopDirsToo(Tail(words), fs, paths)
             ELSE IF PathExists(fs, word)
                  THEN ExtractLoopDirsToo(Tail(words), fs, Append(paths, word))
                  ELSE ExtractLoopDirsToo(Tail(words), fs, paths)

\* The loop of extract_file_paths_from_command over the words.
RECURSIVE ExtractLoop(_, _, _)
ExtractLoop(words, fs, paths) ==
    IF words = <<>> THEN paths
    ELSE LET word == Head(words)
         IN  IF StartsWith(word, "-") \/ IsCommonCommand(word)
             THEN ExtractLoop(Tail(words), fs, paths)
             ELSE IF PathExists(fs, word) /\ PathIsFile(fs, word)
                  THEN ExtractLoop(Tail(words), fs, Append(paths, word))
                  ELSE ExtractLoop(Tail(words), fs, paths)

\* backup.rs extract_file_paths_from_command
ExtractFilePathsFromCommand(cmd, fs) == ExtractLoop(SplitWhitespace(cmd), fs, <<>>)

CriticalWarning == "CRITICAL: This command requires elevated privileges or affects system files!"
DangerousWarning == "DANGEROUS: This operation cannot be easily undone!"
CautionWarning == "CAUTION: This operation will modify files."
RecursiveDeleteWarning == "Recursive delete - will remove directories and all contents!"
WildcardWarning == "Wildcard pattern - multiple files will be affected!"
MoveNotice == "Files will be moved/renamed."
BackupNotice == "Backup will be created automatically before execution."

\* The safety level decided from the operation before the text is looked at.
SafetyLevelOperationFirst(cmd, operation) ==
    IF IsDestructive(operation)
    THEN [safety_level |-> "Dangerous", warnings |-> <<DangerousWarning>>]
    ELSE IF Contains(cmd, "sudo") \/ Contains(cmd, "rm -rf /")
    THEN [safety_level |-> "Critical", warnings |-> <<CriticalWarning>>]
    ELSE IF NeedsBackup(operation)
    THEN [safety_level |-> "Caution", warnings |-> <<CautionWarning>>]
    ELSE [safety_level |-> "Safe", warnings |-> <<>>]

\* The safety level without the needs_backup branch.
SafetyLevelNoCaution(cmd, operation) ==
    IF Contains(cmd, "sudo") \/ Contains(cmd, "rm -rf /")
    THEN [safety_level |-> "Critical", warnings |-> <<CriticalWarning>>]
    ELSE IF IsDestructive(operation)
    THEN [safety_level |-> "Dangerous", warnings |-> <<DangerousWarning>>]
    ELSE [safety_level |-> "Safe", warnings |-> <<>>]

\* The safety level with needs_backup asked before is_destructive.
SafetyLevelBackupFirst(cmd, operation) ==
    IF Contains(cmd, "sudo") \/ Contains(cmd, "rm -rf /")
    THEN [safety_level |-> "Critical", warnings |-> <<CriticalWarning>>]
    ELSE IF NeedsBackup(operation)
    THEN [safety_level |-> "Caution", warnings |-> <<CautionWarning>>]
    ELSE IF IsDestructive(operation)
    THEN [safety_level |-> "Dangerous", warnings |-> <<DangerousWarning>>]
    ELSE [safety_level |-> "Safe", warnings |-> <<>>]

\* The safety level and its warning, as analyze decides them.
SafetyLevelOf(cmd, operation) ==
    IF Contains(cmd, "sudo") \/ Contains(cmd, "rm -rf /")
    THEN [safety_level |-> "Critical", warnings |-> <<CriticalWarning>>]
    ELSE IF IsDestructive(operation)
    THEN [safety_level |-> "Dangerous", warnings |-> <<DangerousWarning>>]
    ELSE IF NeedsBackup(operation)
    THEN [safety_level |-> "Caution", warnings |-> <<CautionWarning>>]
    ELSE [safety_level |-> "Safe", warnings |-> <<>>]

\* The warnings after the level's, the wildcard warning only under the recursive one.
SpecificWarningsNested(cmd, operation, affected_files) ==
    LET rm == Contains(cmd, " rm ") \/ StartsWith(cmd, "rm ")
        recursive == rm /\ (Contains(cmd, "-rf") \/ Contains(cmd, "-r"))
        w1 == IF recursive THEN <<RecursiveDeleteWarning>> ELSE <<>>
        w2 == IF recursive /\ (Contains(cmd, "*") \/ Contains(cmd, "?"))
              THEN <<WildcardWarning>> ELSE <<>>
        w3 == IF (Contains(cmd, " mv ") \/ StartsWith(cmd, "mv ")) /\ affected_files # <<>>
              THEN <<MoveNotice>> ELSE <<>>
        w4 == IF NeedsBackup(operation) /\ affected_files # <<>>
              THEN <<BackupNotice>> ELSE <<>>
    IN  w1 \o w2 \o w3 \o w4

\* The warnings analyze appends after the level's.
SpecificWarnings(cmd, operation, affected_files) ==
    LET rm == Contains(cmd, " rm ") \/ StartsWith(cmd, "rm ")
        w1 == IF rm /\ (Contains(cmd, "-rf") \/ Contains(cmd, "-r"))
              THEN <<RecursiveDeleteWarning>> ELSE <<>>
        w2 == IF rm /\ (Contains(cmd, "*") \/ Contains(cmd, "?"))
              THEN <<WildcardWarning>> ELSE <<>>
        w3 == IF (Contains(cmd, " mv ") \/ StartsWith(cmd, "mv ")) /\ affected_files # <<>>
              THEN <<MoveNotice>> ELSE <<>>
        w4 == IF NeedsBackup(operation) /\ affected_files # <<>>
              THEN <<BackupNotice>> ELSE <<>>
    IN  w1 \o w2 \o w3 \o w4

\* CommandAnalysis::analyze, with fs the files of the local filesystem.
Analyze(cmd, fs) ==
    LET operation == PipeLoop(Split(cmd, "|"), "Unknown")
        affected_files == ExtractFilePathsFromCommand(cmd, fs)
        level == SafetyLevelOf(cmd, operation)
    IN  [command |-> cmd,
         operation |-> operation,
         affected_files |-> affected_files,
         warnings |-> level.warnings \o SpecificWarnings(cmd, operation, affected_files),
         safety_level |-> level.safety_level]

(***************************************************************************)
(* The store as a state machine: one action per public operation, called   *)
(* by one process, and the environment's own changes to the disk.          *)
(***************************************************************************)
IssuedIds == {Uuid(n) : n \in 1..MaxBackups}
\* The ids a caller may pass: every id the store can issue, and one it never issues.
IdArgs == IssuedIds \cup {Uuid(0)}
\* The path lists create_backup is called with: none, a file (present or not), a directory.
PathLists == {<<>>} \cup {<<path>> : path \in InputPaths}
\* The value of analysis before analyze has returned.
NoAnalysis ==
    [command |-> "", operation |-> "<none>", affected_files |-> <<>>, warnings |-> <<>>,
     safety_level |-> "<none>"]
\* The entries of the index, none when there is no index file or it cannot be read.
IndexEntries(ix) == IF IndexExists(ix) /\ IndexParses(ix) THEN ReadIndex(ix) ELSE EmptyMap

\* The calls of each operation that can fail, and those that are let fail.
CreateFaults(paths) ==
    {Fault(site, 0) : site \in {"create_dir_all", "add_open", "add_create", "add_write"}}
        \cup {Fault(site, k) : site \in {"copy", "read"}, k \in 1..Len(paths)}
GetFaults == {Fault("get_open", 0)}
ListFaults == {Fault("list_open", 0)}
RestoreFaults(ix, backup_id) ==
    GetFaults \cup
    {Fault(site, k) : site \in {"create_dir_all", "copy"},
                      k \in 1..(IF backup_id \in DOMAIN IndexEntries(ix)
                                THEN Len(IndexEntries(ix)[backup_id].files) ELSE 0)}
DeleteSites == {"get_open", "remove_dir_all", "remove_open", "remove_create", "remove_write"}
DeleteFaults == {Fault(site, 0) : site \in DeleteSites}
CleanupFaults(ix) ==
    ListFaults \cup
    {Fault(site, k) : site \in DeleteSites, k \in 1..Cardinality(DOMAIN IndexEntries(ix))}
Injected(faulty, faults) == IF faulty THEN faults \cup {NoFault} ELSE {NoFault}

\* The store after BackupManager::new, over the given files and directories.
StoreInitOver(filePaths, dirPaths) ==
    /\ files \in FileSystems(filePaths, dirPaths)
    /\ indexFile = NoIndexFile
    /\ subdirs = EmptyMap
    /\ now = 0
    /\ nextId = 1
    /\ calls = EmptyMap
    /\ deleted = {}
    /\ last = [op |-> "new", arg |-> <<>>, fault |-> NoFault, res |-> Ok, val |-> <<>>, warned |-> <<>>]

StoreInit == StoreInitOver(FilePaths, DirPaths)

\* create_backup, called at most limit times.
CreateBackup(cmd, paths, offset, fault, limit) ==
    /\ nextId <= limit
    /\ LET r == CreateBackupResult(files, indexFile, subdirs, Uuid(nextId),
                                   ToRfc3339(now, offset), cmd, paths, fault)
       IN  /\ indexFile' = r.index
           /\ subdirs' = r.subdirs
           /\ last' = [op |-> "create_backup", arg |-> paths, fault |-> fault,
                       res |-> r.res, val |-> r.entry, warned |-> <<>>]
    /\ calls' = MapInsert(calls, Uuid(nextId), files)
    /\ nextId' = nextId + 1
    /\ now' = now + 1
    /\ UNCHANGED <<files, deleted, analyzerVars, procs>>

\* restore_backup that moves the backup copies out of the store instead of copying them.
RestoreBackupMovesCopies(backup_id, fault) ==
    /\ LET r == RestoreBackupResult(files, indexFile, subdirs, backup_id, fault)
       IN  /\ files' = r.files
           /\ subdirs' = IF r.res = Ok /\ backup_id \in DOMAIN subdirs
                         THEN [subdirs EXCEPT ![backup_id] = EmptyMap] ELSE subdirs
           /\ last' = [op |-> "restore_backup", arg |-> backup_id, fault |-> fault,
                       res |-> r.res, val |-> files, warned |-> r.warned]
    /\ UNCHANGED <<indexFile, now, nextId, calls, deleted, analyzerVars, procs>>

RestoreBackup(backup_id, fault) ==
    /\ LET r == RestoreBackupResult(files, indexFile, subdirs, backup_id, fault)
       IN  /\ files' = r.files
           /\ last' = [op |-> "restore_backup", arg |-> backup_id, fault |-> fault,
                       res |-> r.res, val |-> files, warned |-> r.warned]
    /\ UNCHANGED <<indexFile, subdirs, now, nextId, calls, deleted, analyzerVars, procs>>

ListBackups(fault) ==
    /\ LET r == ListBackupsResult(indexFile, fault)
       IN  last' = [op |-> "list_backups", arg |-> <<>>, fault |-> fault,
                    res |-> r.res, val |-> r.list, warned |-> <<>>]
    /\ UNCHANGED <<files, indexFile, subdirs, now, nextId, calls, deleted, analyzerVars, procs>>

GetBackupEntry(backup_id, fault) ==
    /\ LET r == GetBackupEntryResult(indexFile, backup_id, fault)
       IN  last' = [op |-> "get_backup_entry", arg |-> backup_id, fault |-> fault,
                    res |-> r.res, val |-> r.entry, warned |-> <<>>]
    /\ UNCHANGED <<files, indexFile, subdirs, now, nextId, calls, deleted, analyzerVars, procs>>

DeleteBackup(backup_id, fault) ==
    /\ LET r == DeleteBackupResult(indexFile, subdirs, backup_id, fault)
       IN  /\ indexFile' = r.index
           /\ subdirs' = r.subdirs
           /\ last' = [op |-> "delete_backup", arg |-> backup_id, fault |-> fault,
                       res |-> r.res, val |-> r.removed_dir, warned |-> <<>>]
           /\ deleted' = IF r.res = Ok THEN deleted \cup {backup_id} ELSE deleted
    /\ UNCHANGED <<files, now, nextId, calls, analyzerVars, procs>>

CleanupOldBackups(keep_count, fault) ==
    /\ LET r == CleanupOldBackupsResult(indexFile, subdirs, keep_count, fault)
       IN  /\ indexFile' = r.index
           /\ subdirs' = r.subdirs
           /\ last' = [op |-> "cleanup_old_backups", arg |-> keep_count, fault |-> fault,
                       res |-> r.res, val |-> r.to_delete, warned |-> <<>>]
           /\ deleted' = deleted \cup r.done
    /\ UNCHANGED <<files, now, nextId, calls, analyzerVars, procs>>

\* The user, or the command that was run, writes other bytes to a file.
ExternalWrite(path, bytes) ==
    /\ PathExists(files, Parent(path))
    /\ files[path] # bytes
    /\ files' = [files EXCEPT ![path] = bytes]
    /\ last' = [op |-> "external_write", arg |-> path, fault |-> NoFault, res |-> Ok, val |-> <<>>, warned |-> <<>>]
    /\ UNCHANGED <<indexFile, subdirs, now, nextId, calls, deleted, analyzerVars, procs>>

\* The user, or the command that was run, removes a directory and what is in it.
ExternalRemoveDir(dir) ==
    /\ PathExists(files, dir)
    /\ files' = [path \in DOMAIN files |->
                    IF path = dir \/ Parent(path) = dir THEN Absent ELSE files[path]]
    /\ last' = [op |-> "external_remove_dir", arg |-> dir, fault |-> NoFault, res |-> Ok, val |-> <<>>, warned |-> <<>>]
    /\ UNCHANGED <<indexFile, subdirs, now, nextId, calls, deleted, analyzerVars, procs>>

\* Something outside the store removes a backup subdirectory.
ExternalRemoveSubdir(id) ==
    /\ id \in DOMAIN subdirs
    /\ subdirs' = MapRemove(subdirs, id)
    /\ last' = [op |-> "external_remove_subdir", arg |-> id, fault |-> NoFault, res |-> Ok, val |-> <<>>, warned |-> <<>>]
    /\ UNCHANGED <<files, indexFile, now, nextId, calls, deleted, analyzerVars, procs>>

\* Something outside the store removes one file of a backup subdirectory.
ExternalRemoveCopy(id, name) ==
    /\ id \in DOMAIN subdirs
    /\ name \in DOMAIN subdirs[id]
    /\ subdirs' = [subdirs EXCEPT ![id] = MapRemove(subdirs[id], name)]
    /\ last' = [op |-> "external_remove_copy", arg |-> <<id, name>>, fault |-> NoFault,
                res |-> Ok, val |-> <<>>, warned |-> <<>>]
    /\ UNCHANGED <<files, indexFile, now, nextId, calls, deleted, analyzerVars, procs>>

\* Something outside the store leaves the index file with content that is not JSON
\* (an empty file, a document cut short, an edit by hand).
ExternalCorruptIndex ==
    /\ indexFile # TruncatedIndex
    /\ indexFile' = TruncatedIndex
    /\ last' = [op |-> "external_corrupt_index", arg |-> <<>>, fault |-> NoFault,
                res |-> Ok, val |-> <<>>, warned |-> <<>>]
    /\ UNCHANGED <<files, subdirs, now, nextId, calls, deleted, analyzerVars, procs>>

\* The public operations, called while the local UTC offset is one of offsets, with one
\* of pathLists, with a file system call failing if faulty, and create_backup called at
\* most limit times.
StoreOps(offsets, pathLists, faulty, limit) ==
    \/ \E cmd \in StoreCommands, paths \in pathLists, offset \in offsets :
          \E fault \in Injected(faulty, CreateFaults(paths)) :
             CreateBackup(cmd, paths, offset, fault, limit)
    \/ \E id \in IdArgs : \E fault \in Injected(faulty, RestoreFaults(indexFile, id)) :
          RestoreBackup(id, fault)
    \/ \E fault \in Injected(faulty, ListFaults) : ListBackups(fault)
    \/ \E id \in IdArgs : \E fault \in Injected(faulty, GetFaults) : GetBackupEntry(id, fault)
    \/ \E id \in IdArgs : \E fault \in Injected(faulty, DeleteFaults) : DeleteBackup(id, fault)
    \/ \E k \in 0..MaxBackups : \E fault \in Injected(faulty, CleanupFaults(indexFile)) :
          CleanupOldBackups(k, fault)

AnalyzerIdle == command = "" /\ analysis = NoAnalysis

\* The processes that share the store, and a process that is in no call.
Procs == {1, 2}
IdleProc ==
    [pc |-> "idle", op |-> "", arg |-> <<>>, id |-> Uuid(0), timestamp |-> <<0, 0>>,
     command |-> "", k |-> 0, backup_files |-> <<>>, entries |-> EmptyMap,
     latest |-> FALSE, res |-> Ok]
ProcsIdle == procs = [p \in Procs |-> IdleProc]

\* One process using the store in a fixed time zone, while the user's files and the
\* backup subdirectories change under it.
Init == StoreInit /\ AnalyzerIdle /\ ProcsIdle
Next ==
    \/ StoreOps(StandardTime, PathLists, FALSE, MaxBackups)
    \/ \E path \in FilePaths, bytes \in Contents : ExternalWrite(path, bytes)
    \/ \E dir \in DirPaths : ExternalRemoveDir(dir)
    \/ \E id \in IssuedIds : ExternalRemoveSubdir(id)
Spec == Init /\ [][Next]_vars

\* One process using the store in a time zone that switches between standard and
\* daylight time.
NextTz == StoreOps(TzOffsets, PathLists, FALSE, MaxBackups)
SpecTz == Init /\ [][NextTz]_vars

\* A wider file system: two directories, two files of the same name among them.
WideFilePaths == {"d1/a", "d1/b", "d2/a"}
WideDirPaths == {"d1", "d2"}
\* The path lists over it: at most two paths, repeated or not, files or directories.
WidePathLists ==
    {<<>>} \cup {<<p>> : p \in WideFilePaths \cup WideDirPaths}
           \cup {<<p, q>> : p \in WideFilePaths \cup WideDirPaths, q \in WideFilePaths}
InitWide == StoreInitOver(WideFilePaths, WideDirPaths) /\ AnalyzerIdle /\ ProcsIdle

\* One process using the store over the wider file system, while directories of the
\* user and backup copies are removed under it.
NextPaths ==
    \/ StoreOps(StandardTime, WidePathLists, FALSE, MaxWideBackups)
    \/ \E dir \in WideDirPaths : ExternalRemoveDir(dir)
    \/ \E id \in IssuedIds : ExternalRemoveSubdir(id)
    \/ \E id \in IssuedIds, path \in WideFilePaths : ExternalRemoveCopy(id, FileName(path))
SpecPaths == InitWide /\ [][NextPaths]_vars

\* One process using the store over the wider file system while its file system calls
\* can fail.
NextFault == StoreOps(StandardTime, WidePathLists, TRUE, MaxWideBackups)
SpecFault == InitWide /\ [][NextFault]_vars

\* One process using the store while its file system calls can fail and the index file
\* can be left malformed by something else.
NextCorrupt ==
    \/ StoreOps(StandardTime, PathLists, TRUE, MaxBackups)
    \/ ExternalCorruptIndex
SpecCorrupt == Init /\ [][NextCorrupt]_vars

(***************************************************************************)
(* The store shared by processes: create_backup and delete_backup taken    *)
(* one file system call at a time, so that the calls of two processes and  *)
(* the writes of the user interleave.  Nothing locks the index file.       *)
(***************************************************************************)
\* The process p moves on to pc with the given locals changed.
Goto(p, pc, changes) ==
    procs' = [procs EXCEPT ![p] =
                 [f \in DOMAIN IdleProc |->
                     IF f = "pc" THEN pc
                     ELSE IF f \in DOMAIN changes THEN changes[f] ELSE procs[p][f]]]
\* The entry create_backup builds from its locals.
EntryOf(proc) ==
    [id |-> proc.id, timestamp |-> proc.timestamp, command |-> proc.command,
     files |-> proc.backup_files, description |-> Description(proc.command)]

\* create_backup up to the loop: the id, the timestamp, the subdirectory.
BeginCreateBackup(p, cmd, paths, offset) ==
    /\ procs[p].pc = "idle"
    /\ nextId <= MaxBackups
    /\ subdirs' = MapInsert(subdirs, Uuid(nextId), EmptyMap)
    /\ Goto(p, "loop", [op |-> "create_backup", arg |-> paths, id |-> Uuid(nextId),
                        timestamp |-> ToRfc3339(now, offset), command |-> cmd, k |-> 1,
                        backup_files |-> <<>>, entries |-> EmptyMap, latest |-> FALSE,
                        res |-> Ok])
    /\ calls' = MapInsert(calls, Uuid(nextId), files)
    /\ nextId' = nextId + 1
    /\ now' = now + 1
    /\ UNCHANGED <<files, indexFile, deleted, last, analyzerVars>>

\* One turn of the loop of create_backup, up to and including fs::copy.
CreateBackupCopy(p) ==
    /\ procs[p].pc = "loop"
    /\ LET proc == procs[p]
           path == proc.arg[proc.k]
       IN  IF proc.k > Len(proc.arg)
           THEN Goto(p, "add_read", <<>>) /\ UNCHANGED subdirs
           ELSE IF ~PathExists(files, path) \/ ~PathIsFile(files, path)
           THEN Goto(p, "loop", [k |-> proc.k + 1]) /\ UNCHANGED subdirs
           ELSE IF proc.id \notin DOMAIN subdirs
           THEN Goto(p, "done", [res |-> IoError]) /\ UNCHANGED subdirs
           ELSE /\ subdirs' = [subdirs EXCEPT ![proc.id] = MapInsert(@, FileName(path), files[path])]
                /\ Goto(p, "hash", <<>>)
    /\ UNCHANGED <<files, indexFile, now, nextId, calls, deleted, last, analyzerVars>>

\* The rest of the turn: calculate_file_hash(&path) and the push of the BackupFile.
CreateBackupHash(p) ==
    /\ procs[p].pc = "hash"
    /\ LET proc == procs[p]
           path == proc.arg[proc.k]
       IN  IF ~PathIsFile(files, path) THEN Goto(p, "done", [res |-> IoError])
           ELSE Goto(p, "loop",
                     [k |-> proc.k + 1,
                      backup_files |-> Append(proc.backup_files,
                          [original_path |-> path,
                           backup_path |-> BackupPath(proc.id, path),
                           file_hash |-> CalculateFileHash(files, path)])])
    /\ UNCHANGED <<storeVars, analyzerVars>>

\* add_to_index and remove_from_index: the read of the whole index file.
IndexRead(p) ==
    /\ procs[p].pc \in {"add_read", "remove_read"}
    /\ LET adding == procs[p].pc = "add_read"
       IN  IF ~IndexExists(indexFile)
           THEN IF adding THEN Goto(p, "add_create", [entries |-> EmptyMap])
                ELSE Goto(p, "done", [res |-> Ok])
           ELSE IF ~IndexParses(indexFile) THEN Goto(p, "done", [res |-> SerializationError])
           ELSE Goto(p, IF adding THEN "add_create" ELSE "remove_create",
                     [entries |-> ReadIndex(indexFile)])
    /\ UNCHANGED <<storeVars, analyzerVars>>

\* File::create on the index file, which truncates it.
IndexCreate(p) ==
    /\ procs[p].pc \in {"add_create", "remove_create"}
    /\ indexFile' = TruncatedIndex
    /\ Goto(p, IF procs[p].pc = "add_create" THEN "add_write" ELSE "remove_write", <<>>)
    /\ UNCHANGED <<files, subdirs, now, nextId, calls, deleted, last, analyzerVars>>

\* serde_json::to_writer_pretty: the map that was read, changed, written over the file.
IndexWrite(p) ==
    /\ procs[p].pc \in {"add_write", "remove_write"}
    /\ indexFile' = IF procs[p].pc = "add_write"
                    THEN AddToIndexWrite(procs[p].entries, EntryOf(procs[p]))
                    ELSE RemoveFromIndexWrite(procs[p].entries, procs[p].id)
    /\ procs' = [q \in Procs |->
                    IF q = p THEN [procs[p] EXCEPT !.pc = "done", !.res = Ok, !.latest = TRUE]
                    ELSE [procs[q] EXCEPT !.latest = FALSE]]
    /\ UNCHANGED <<files, subdirs, now, nextId, calls, deleted, last, analyzerVars>>

\* delete_backup up to the removal of the subdirectory: the get_backup_entry lookup.
BeginDeleteBackup(p, backup_id) ==
    /\ procs[p].pc = "idle"
    /\ LET got == GetBackupEntryResult(indexFile, backup_id, NoFault)
       IN  Goto(p, IF got.res = Ok THEN "remove_dir" ELSE "done",
                [op |-> "delete_backup", arg |-> backup_id, id |-> backup_id,
                 entries |-> EmptyMap, latest |-> FALSE, res |-> got.res])
    /\ UNCHANGED <<storeVars, analyzerVars>>

\* fs::remove_dir_all of the subdirectory, if it exists.
DeleteBackupRemoveDir(p) ==
    /\ procs[p].pc = "remove_dir"
    /\ subdirs' = IF procs[p].id \in DOMAIN subdirs THEN MapRemove(subdirs, procs[p].id)
                  ELSE subdirs
    /\ Goto(p, "remove_read", <<>>)
    /\ UNCHANGED <<files, indexFile, now, nextId, calls, deleted, last, analyzerVars>>

\* The user, or another program, writes other bytes to a file that a create_backup has
\* copied and not yet hashed.  (A write at any other moment is a choice of the initial
\* files: create_backup reads a file nowhere else.)
ConcurrentWrite(path, bytes) ==
    /\ \E p \in Procs : procs[p].pc = "hash" /\ procs[p].arg[procs[p].k] = path
    /\ files[path] # bytes
    /\ files' = [files EXCEPT ![path] = bytes]
    /\ UNCHANGED <<indexFile, subdirs, now, nextId, calls, deleted, last, analyzerVars, procs>>

\* The call returns to its caller.
Return(p) ==
    /\ procs[p].pc = "done"
    /\ last' = [op |-> procs[p].op, arg |-> procs[p].arg, fault |-> NoFault,
                res |-> procs[p].res,
                val |-> IF procs[p].op = "create_backup" /\ procs[p].res = Ok
                        THEN EntryOf(procs[p]) ELSE <<>>,
                warned |-> <<>>]
    /\ deleted' = IF procs[p].op = "delete_backup" /\ procs[p].res = Ok
                  THEN deleted \cup {procs[p].id} ELSE deleted
    /\ procs' = [procs EXCEPT ![p] = IdleProc]
    /\ UNCHANGED <<files, indexFile, subdirs, now, nextId, calls, analyzerVars>>

NextRace ==
    \/ \E p \in Procs, cmd \in StoreCommands, paths \in PathLists, offset \in StandardTime :
          BeginCreateBackup(p, cmd, paths, offset)
    \/ \E p \in Procs : CreateBackupCopy(p)
    \/ \E p \in Procs : CreateBackupHash(p)
    \/ \E p \in Procs : IndexRead(p)
    \/ \E p \in Procs : IndexCreate(p)
    \/ \E p \in Procs : IndexWrite(p)
    \/ \E p \in Procs, id \in IdArgs : BeginDeleteBackup(p, id)
    \/ \E p \in Procs : DeleteBackupRemoveDir(p)
    \/ \E p \in Procs : Return(p)
    \/ \E path \in FilePaths, bytes \in Contents : ConcurrentWrite(path, bytes)
SpecRace == Init /\ [][NextRace]_vars

\* One process in create_backup or delete_backup, one file system call at a time, while
\* another reads the index with list_backups or get_backup_entry.
Writers == {1}
NextReader ==
    \/ \E p \in Writers, cmd \in StoreCommands, paths \in PathLists, offset \in StandardTime :
          BeginCreateBackup(p, cmd, paths, offset)
    \/ \E p \in Writers : CreateBackupCopy(p)
    \/ \E p \in Writers : CreateBackupHash(p)
    \/ \E p \in Writers : IndexRead(p)
    \/ \E p \in Writers : IndexCreate(p)
    \/ \E p \in Writers : IndexWrite(p)
    \/ \E p \in Writers, id \in IdArgs : BeginDeleteBackup(p, id)
    \/ \E p \in Writers : DeleteBackupRemoveDir(p)
    \/ \E p \in Writers : Return(p)
    \/ ListBackups(NoFault)
    \/ \E id \in IdArgs : GetBackupEntry(id, NoFault)
SpecReader == Init /\ [][NextReader]_vars

(***************************************************************************)
(* The classifier applied to a command: the commands of the unit tests and *)
(* of the specification's examples, and every command made of at most      *)
(* MaxPieces pieces.                                                       *)
(***************************************************************************)
Corpus ==
    {"rm -rf /tmp/test",
     "cat file.txt",
     "sudo rm file.txt",
     "find . -name 'test.md' | xargs rm",
     "find . -name 'test.md' -print0 | xargs -0 rm -f",
     "find . -name 'x' | xargs rm",
     "find . | xargs sudo rm",
     "grep -r rm src",
     "rm -r build",
     "rm d1/a",
     "sudo rm d1/a",
     "mv d1/a b | tee c",
     "tee c | mv d1/a b",
     "sed -i s/x/y/ d1/a",
     "echo hi > d1/a",
     "cat d1/a | grep x | ls",
     "ls d1 | xargs mv d1/a ",
     "rm *.txt",
     "rm -r build/*",
     "rm -rf d1 ?",
     "rm file?.txt",
     "ls * | xargs rm -r",
     "grep -r x *",
     "cp d1/a d1 -f d1/a missing"}
Pieces == {" ", "|", "rm", "sudo", "-rf", "/", "cat", "xargs", "mv", "d1/a", "*"}
RECURSIVE Generated(_)
Generated(n) ==
    IF n = 0 THEN {""}
    ELSE Generated(n - 1) \cup {c \o piece : c \in Generated(n - 1), piece \in Pieces}
Commands == Corpus \cup Generated(MaxPieces)

AnalyzeCommand ==
    /\ analysis = NoAnalysis
    /\ analysis' = Analyze(command, files)
    /\ UNCHANGED <<command, storeVars, procs>>

\* The store is as after construction; the user's files are any of those of the model.
InitAnalyze == StoreInit /\ command \in Commands /\ analysis = NoAnalysis /\ ProcsIdle
NextAnalyze == AnalyzeCommand
SpecAnalyze == InitAnalyze /\ [][NextAnalyze]_vars

(***************************************************************************)
(* Properties of the backup store.                                         *)
(***************************************************************************)
Min(a, b) == IF a <= b THEN a ELSE b
Entries == IndexEntries(indexFile)
ListedIds(ix) == {e.id : e \in SeqToSet(ListBackupsResult(ix, NoFault).list)}
\* The entry of id was made by create_backup(cmd, [path]) with path a regular file.
BackedUpAlone(entry, path) == Len(entry.files) = 1 /\ entry.files[1].original_path = path

\* C1: create_backup(cmd, [F]) on an existing regular file F returns an entry with
\* exactly one BackupFile whose file_hash is the digest of F's bytes at the call; and
\* once restore_backup(entry.id) has returned, with the backup copy still in place,
\* F holds the bytes it had when create_backup was called, whatever was written to it since.
C1_RoundTrip ==
    /\ (/\ last.op = "create_backup"
        /\ Len(last.arg) = 1
        /\ PathIsFile(calls[last.val.id], last.arg[1]))
       => /\ Len(last.val.files) = 1
          /\ last.val.files[1].original_path = last.arg[1]
          /\ last.val.files[1].file_hash = Sha256Hex(calls[last.val.id][last.arg[1]])
    /\ (/\ last.op = "restore_backup"
        /\ last.res = Ok
        /\ last.arg \in DOMAIN subdirs)
       => \A F \in FilePaths :
             BackedUpAlone(Entries[last.arg], F) => files[F] = calls[last.arg][F]

\* A restore that brought back the bytes of the call after F had been overwritten.
C1_Witness ==
    /\ last.op = "restore_backup"
    /\ last.res = Ok
    /\ last.arg \in DOMAIN subdirs
    /\ \E F \in FilePaths :
          /\ BackedUpAlone(Entries[last.arg], F)
          /\ last.val[F] # calls[last.arg][F]
          /\ files[F] = calls[last.arg][F]

C3_DeleteRemoves ==
    [][/\ \A id \in deleted' : id \notin ListedIds(indexFile')
       /\ (last'.op = "delete_backup" /\ last'.arg \in DOMAIN IndexEntries(indexFile)) =>
            LET before == IndexEntries(indexFile)
                after == IndexEntries(indexFile')
                id == last'.arg
            IN  /\ last'.res = Ok
                /\ id \in deleted'
                /\ id \notin DOMAIN subdirs'
                /\ DOMAIN after = DOMAIN before \ {id}
                /\ \A o \in DOMAIN after : after[o] = before[o]
                /\ DOMAIN subdirs' = DOMAIN subdirs \ {id}
                /\ \A o \in DOMAIN subdirs' : subdirs'[o] = subdirs[o]
      ]_vars

\* A deletion that succeeded with the subdirectory already gone and left another entry.
C3_Witness ==
    /\ last.op = "delete_backup"
    /\ last.res = Ok
    /\ last.val = FALSE
    /\ DOMAIN Entries # {}

\* C8: list_backups on a store with no entries - no index file, or an index emptied
\* by deletions - returns the empty sequence and no error.
C8_ListEmptyStore ==
    (last.op = "list_backups" /\ DOMAIN Entries = {}) => (last.res = Ok /\ last.val = <<>>)

\* list_backups on an index file that exists and was emptied by deletions.
C8_Witness ==
    /\ last.op = "list_backups"
    /\ IndexExists(indexFile)
    /\ DOMAIN Entries = {}
    /\ deleted # {}
    /\ last.val = <<>>

\* The n of the n-th UUID drawn: entries are created in this order.
CreationNumber(id) == id[2]

\* C9: list_backups returns every entry of the index exactly once, ordered by timestamp
\* descending, and that order is the order of creation, most recent first.
C9_ListChronological ==
    last.op = "list_backups" =>
        LET l == last.val
        IN  /\ {l[i].id : i \in 1..Len(l)} = DOMAIN Entries
            /\ Len(l) = Cardinality(DOMAIN Entries)
            /\ \A i, j \in 1..Len(l) : i < j => TimestampLess(l[j].timestamp, l[i].timestamp)
            /\ \A i, j \in 1..Len(l) : i < j => CreationNumber(l[j].id) < CreationNumber(l[i].id)

\* C10: get_backup_entry, restore_backup and delete_backup of an id that is not in the
\* index (or with no index file) fail with NotFound and leave the index, the backup
\* subdirectories and the user's files unchanged.
C10_UnknownIdNotFound ==
    [][(/\ last'.op \in {"get_backup_entry", "restore_backup", "delete_backup"}
        /\ last'.arg \notin DOMAIN IndexEntries(indexFile))
       => /\ last'.res = NotFound
          /\ files' = files
          /\ indexFile' = indexFile
          /\ subdirs' = subdirs
      ]_vars

\* delete_backup of an unknown id, refused while the index holds other entries.
C10_Witness ==
    /\ last.op = "delete_backup"
    /\ last.res = NotFound
    /\ DOMAIN Entries # {}

(***************************************************************************)
(* Properties of the risk classifier.                                      *)
(***************************************************************************)
Analyzed == analysis # NoAnalysis
HasWarning(w) == \E i \in 1..Len(analysis.warnings) : analysis.warnings[i] = w
Stages == Split(command, "|")
NonEmptyStages == {i \in 1..Len(Stages) : SplitWhitespace(Stages[i]) # <<>>}
LeadingToken(stage) == SplitWhitespace(stage)[1]
SingleStage == Len(Stages) = 1 /\ NonEmptyStages = {1}
ReadWords == {"cat", "less", "more", "grep", "find", "ls"}
MaxOf(S) == CHOOSE m \in S : \A x \in S : x <= m

\* C4: every command whose text contains sudo is given safety level Critical.
C4_SudoIsCritical ==
    (Analyzed /\ Contains(command, "sudo")) => analysis.safety_level = "Critical"

\* sudo inside a later stage of a pipeline that resolves to Delete.
C4_Witness ==
    /\ Analyzed
    /\ Contains(command, "sudo")
    /\ ~StartsWith(command, "sudo")
    /\ analysis.operation = "Delete"
    /\ analysis.safety_level = "Critical"

\* C5: a single-stage command led by rm, without sudo and of the form
\* rm -rf <absolute path> (rm -rf /tmp/test), is given operation Delete, safety level
\* Dangerous and the recursive-delete warning.
C5_RmRfAbsoluteIsDangerous ==
    (/\ Analyzed
     /\ SingleStage
     /\ LeadingToken(command) = "rm"
     /\ ~Contains(command, "sudo")
     /\ StartsWith(command, "rm -rf /"))
    => /\ analysis.operation = "Delete"
       /\ analysis.safety_level = "Dangerous"
       /\ HasWarning(RecursiveDeleteWarning)

ReadCommand ==
    /\ Analyzed
    /\ SingleStage
    /\ LeadingToken(command) \in ReadWords
    /\ ~Contains(command, "sudo")
    /\ ~Contains(command, "rm -rf /")

\* C6: a single-stage command led by cat, less, more, grep, find or ls, with
\* neither sudo nor rm -rf / in it, is given operation Read, safety level Safe and no
\* warning of destruction.
C6_ReadIsSafe ==
    ReadCommand =>
        /\ analysis.operation = "Read"
        /\ analysis.safety_level = "Safe"
        /\ ~HasWarning(CriticalWarning) /\ ~HasWarning(DangerousWarning)
        /\ ~HasWarning(RecursiveDeleteWarning) /\ ~HasWarning(WildcardWarning)

\* The greatest danger rank among the operations of the non-empty stages, 0 if none.
MaxStageRank ==
    MaxOf({0} \cup {Rank(StageOperation(Stages[i], LeadingToken(Stages[i]))) : i \in NonEmptyStages})
\* A stage led by a read command, followed by a stage led by xargs that has rm as a
\* later word.
ReadThenXargsRm ==
    \E i \in 1..(Len(Stages) - 1) :
        /\ {i, i + 1} \subseteq NonEmptyStages
        /\ LeadingToken(Stages[i]) \in ReadWords
        /\ LET words == SplitWhitespace(Stages[i + 1])
           IN  words[1] = "xargs" /\ \E k \in 2..Len(words) : words[k] = "rm"

\* C7 as claimed: the danger rank of the resolved operation is the greatest rank among
\* the stages, and a read stage followed by an xargs ... rm stage resolves to Delete
\* with safety level Dangerous.
C7_PipelineMaxRank ==
    Analyzed =>
        /\ Rank(analysis.operation) = MaxStageRank
        /\ ReadThenXargsRm =>
              (analysis.operation = "Delete" /\ analysis.safety_level = "Dangerous")

\* C7 as amended: the danger rank of the resolved operation is the greatest rank among
\* the stages, and a read stage followed by an xargs ... rm stage resolves to Delete,
\* with safety level Critical when the text contains sudo or rm -rf / and Dangerous
\* otherwise.
C7_PipelineMaxRankAmended ==
    Analyzed =>
        /\ Rank(analysis.operation) = MaxStageRank
        /\ ReadThenXargsRm =>
              /\ analysis.operation = "Delete"
              /\ analysis.safety_level =
                    IF Contains(command, "sudo") \/ Contains(command, "rm -rf /")
                    THEN "Critical" ELSE "Dangerous"

\* find ... | xargs rm, resolved to Delete and Dangerous.
C7_Witness ==
    /\ Analyzed
    /\ command = "find . -name 'test.md' | xargs rm"
    /\ ReadThenXargsRm
    /\ analysis.operation = "Delete"
    /\ analysis.safety_level = "Dangerous"

LevelWarnings == {CriticalWarning, DangerousWarning, CautionWarning}
NamesCritical == Contains(command, "sudo") \/ Contains(command, "rm -rf /")

StageOp(i) == StageOperation(Stages[i], LeadingToken(Stages[i]))
\* The first stage, in pipeline order, whose operation has the greatest rank.
FirstMaxStage ==
    CHOOSE i \in NonEmptyStages :
        /\ Rank(StageOp(i)) = MaxStageRank
        /\ \A j \in NonEmptyStages : Rank(StageOp(j)) = MaxStageRank => i <= j

\* C22: when several stages have operations of the same, greatest rank, the resolved
\* operation is that of the first of them in pipeline order (mv a b | tee c gives
\* Move, tee c | mv a b gives Write, stages that are all Read give Read).
C22_FirstOfMaxRank ==
    (Analyzed /\ NonEmptyStages # {}) => analysis.operation = StageOp(FirstMaxStage)

\* The same for the pipelines whose greatest rank is above that of Read and Unknown.
C22_FirstOfMaxRankAboveZero ==
    (Analyzed /\ NonEmptyStages # {} /\ MaxStageRank > 0)
        => analysis.operation = StageOp(FirstMaxStage)

\* Two stages of the greatest rank with different operations, the first one kept.
C22_TieKeepsFirst ==
    /\ Analyzed
    /\ \E i, j \in NonEmptyStages :
          /\ i < j
          /\ Rank(StageOp(i)) = MaxStageRank /\ Rank(StageOp(j)) = MaxStageRank
          /\ StageOp(i) # StageOp(j)
          /\ analysis.operation = StageOp(i)

NamesRm == Contains(command, " rm ") \/ StartsWith(command, "rm ")
NamesRecursive == Contains(command, "-rf") \/ Contains(command, "-r")
NamesWildcard == Contains(command, "*") \/ Contains(command, "?")
Count(w) == Cardinality({i \in 1..Len(analysis.warnings) : analysis.warnings[i] = w})

\* C23 as claimed: the recursive-delete warning is there exactly when the command
\* contains " rm " or starts with "rm " and contains -rf or -r; the wildcard warning is
\* there exactly when, under those same conditions, the command contains * or ?, so
\* never without the recursive-delete warning.
C23_WildcardUnderRecursive ==
    Analyzed =>
        /\ HasWarning(RecursiveDeleteWarning) <=> (NamesRm /\ NamesRecursive)
        /\ HasWarning(WildcardWarning) <=> (NamesRm /\ NamesRecursive /\ NamesWildcard)
        /\ HasWarning(WildcardWarning) => HasWarning(RecursiveDeleteWarning)

\* C23 as amended: the recursive-delete warning is there, once, exactly when the
\* command contains " rm " or starts with "rm " and contains -rf or -r; the wildcard
\* warning is there, once, exactly when the command contains " rm " or starts with
\* "rm " and contains * or ?, whether or not it contains -rf or -r.
C23_WildcardUnderRm ==
    Analyzed =>
        /\ Count(RecursiveDeleteWarning) = (IF NamesRm /\ NamesRecursive THEN 1 ELSE 0)
        /\ Count(WildcardWarning) = (IF NamesRm /\ NamesWildcard THEN 1 ELSE 0)

\* rm with a wildcard and no -r: the wildcard warning without the recursive-delete one.
C23_Witness ==
    /\ Analyzed
    /\ NamesRm /\ NamesWildcard /\ ~NamesRecursive
    /\ HasWarning(WildcardWarning)
    /\ ~HasWarning(RecursiveDeleteWarning)

\* rm with -r and a wildcard: both warnings, the recursive-delete one first.
C23_BothWarnings ==
    /\ Analyzed
    /\ \E i \in 1..(Len(analysis.warnings) - 1) :
          /\ analysis.warnings[i] = RecursiveDeleteWarning
          /\ analysis.warnings[i + 1] = WildcardWarning

Risky == analysis.safety_level \in {"Caution", "Dangerous", "Critical"}

\* C24: every command given safety level Caution, Dangerous or Critical for which an
\* affected file is found has a resolved operation that needs a backup (Delete, Modify,
\* Move, Write) and the backup-will-be-created notice among its warnings.
C24_RiskyIsBackedUp ==
    (Analyzed /\ Risky /\ analysis.affected_files # <<>>)
        => /\ analysis.operation \in {"Delete", "Modify", "Move", "Write"}
           /\ HasWarning(BackupNotice)

\* The same for the commands that contain neither sudo nor rm -rf /.
C24_RiskyIsBackedUpUnlessCritical ==
    (Analyzed /\ Risky /\ ~NamesCritical /\ analysis.affected_files # <<>>)
        => /\ analysis.operation \in {"Delete", "Modify", "Move", "Write"}
           /\ HasWarning(BackupNotice)

\* A Dangerous command with an affected file and the notice.
C24_Protected ==
    /\ Analyzed
    /\ analysis.safety_level = "Dangerous"
    /\ analysis.affected_files # <<>>
    /\ HasWarning(BackupNotice)

Tokens == SplitWhitespace(command)
Denylist ==
    {"ls", "cd", "pwd", "echo", "cat", "grep", "find", "sed", "awk", "rm", "mv", "cp",
     "mkdir", "touch", "chmod", "chown", "sudo", "curl", "wget", "git", "docker", "npm",
     "yarn", "cargo", "python", "node", "bash", "sh", "zsh"}
IsCandidate(token) ==
    /\ SubSeq(token, 1, 1) # "-"
    /\ token \notin Denylist
    /\ token \in DOMAIN files
    /\ files[token] \notin {Absent, Dir}

\* C26: the affected files are, in token order and with duplicates kept, exactly the
\* whitespace-delimited tokens of the command that do not start with -, are not on the
\* denylist of command names and name an existing regular file; no directory and no
\* path that does not exist is among them.
C26_AffectedFilesAreTokens ==
    Analyzed =>
        /\ analysis.affected_files = SelectSeq(Tokens, LAMBDA token : IsCandidate(token))
        /\ \A i \in 1..Len(analysis.affected_files) :
              /\ analysis.affected_files[i] \in FilePaths
              /\ files[analysis.affected_files[i]] \in Contents

\* A command naming the same file twice, a directory, a flag and a missing path.
C26_Witness ==
    /\ Analyzed
    /\ command = "cp d1/a d1 -f d1/a missing"
    /\ files["d1"] = Dir
    /\ analysis.affected_files = <<"d1/a", "d1/a">>

\* C28: if the resolved operation needs a backup (Delete, Modify, Move, Write) the
\* safety level is not Safe; and a Safe command has an operation that needs no backup
\* and contains neither sudo nor rm -rf /.
C28_NeedsBackupIsNotSafe ==
    Analyzed =>
        /\ analysis.operation \in {"Delete", "Modify", "Move", "Write"}
              => analysis.safety_level # "Safe"
        /\ analysis.safety_level = "Safe"
              => /\ analysis.operation \notin {"Delete", "Modify", "Move", "Write"}
                 /\ ~Contains(command, "sudo")
                 /\ ~Contains(command, "rm -rf /")

\* A Move, the least of the operations that need a backup, given Caution.
C28_Witness ==
    /\ Analyzed
    /\ analysis.operation = "Move"
    /\ analysis.safety_level = "Caution"

\* A command given Safe: its operation needs no backup.
C28_SafeCommand ==
    /\ Analyzed
    /\ analysis.safety_level = "Safe"
    /\ analysis.operation = "Unknown"
    /\ command # ""

\* C12: an entry enters the index only by create_backup, under an id never issued
\* before; it stays there unchanged until delete_backup, called directly or by
\* cleanup_old_backups, removes its index record and its subdirectory in one call; an id
\* once deleted is never in the index again, and no later create_backup draws it.
C12_EntryLifecycle ==
    [][LET before == IndexEntries(indexFile)
           after == IndexEntries(indexFile')
       IN  /\ \A id \in DOMAIN after \ DOMAIN before :
                 /\ last'.op = "create_backup" /\ last'.res = Ok /\ last'.val.id = id
                 /\ id \notin DOMAIN calls
                 /\ id \notin deleted
           /\ \A id \in DOMAIN before \cap DOMAIN after : after[id] = before[id]
           /\ \A id \in DOMAIN before \ DOMAIN after :
                 /\ last'.op \in {"delete_backup", "cleanup_old_backups"}
                 /\ id \in deleted' \ deleted
           /\ \A id \in deleted' \ deleted :
                 id \in DOMAIN before /\ id \notin DOMAIN after /\ id \notin DOMAIN subdirs'
           /\ deleted \subseteq deleted'
           /\ deleted' \cap DOMAIN after = {}
      ]_vars

\* A create_backup after a deletion: the deleted id is out of the index, the new one in.
C12_Witness ==
    /\ last.op = "create_backup"
    /\ last.res = Ok
    /\ deleted # {}
    /\ last.val.id \notin deleted
    /\ last.val.id \in DOMAIN Entries
    /\ deleted \cap DOMAIN Entries = {}

\* C19: get_backup_entry, list_backups and restore_backup leave the index file and
\* every backup subdirectory as they were, so that get_backup_entry returns the same for
\* every id after them as before, however many times an entry is read or restored.
C19_ReadsDoNotMutate ==
    [][last'.op \in {"get_backup_entry", "list_backups", "restore_backup"} =>
          /\ indexFile' = indexFile
          /\ subdirs' = subdirs
          /\ \A id \in IdArgs :
                GetBackupEntryResult(indexFile', id, NoFault)
                    = GetBackupEntryResult(indexFile, id, NoFault)
      ]_vars

\* A restore that changed the user's file, its entry and its copy still in the store.
C19_Witness ==
    /\ last.op = "restore_backup"
    /\ last.res = Ok
    /\ files # last.val
    /\ last.arg \in DOMAIN Entries
    /\ last.arg \in DOMAIN subdirs
    /\ subdirs[last.arg] # EmptyMap

\* C20: every entry of the index is stored under the key that is its own id, no two
\* entries listed have the same id, and the backup_path of every BackupFile of an entry
\* is <root>/<id of the entry>/<base name of its original_path>.
C20_KeyedById ==
    /\ \A key \in DOMAIN Entries :
          /\ Entries[key].id = key
          /\ \A i \in 1..Len(Entries[key].files) :
                Entries[key].files[i].backup_path
                    = <<key, FileName(Entries[key].files[i].original_path)>>
    /\ LET list == ListBackupsResult(indexFile, NoFault).list
       IN  \A i, j \in 1..Len(list) : i # j => list[i].id # list[j].id

\* Two entries in the index, each with a file.
C20_Witness ==
    /\ Cardinality(DOMAIN Entries) = 2
    /\ \A key \in DOMAIN Entries : Len(Entries[key].files) = 1
    /\ Len(ListBackupsResult(indexFile, NoFault).list) = 2

Malformed(ix) == IndexExists(ix) /\ ~IndexParses(ix)
PublicOps ==
    {"list_backups", "get_backup_entry", "restore_backup", "delete_backup",
     "cleanup_old_backups", "create_backup"}

\* C25: while the index file exists and is malformed, each of list_backups,
\* get_backup_entry, restore_backup, delete_backup, cleanup_old_backups and
\* create_backup returns an error, none returning an empty or partial result, and none
\* of them changes the index file.
C25_MalformedIndexFails ==
    [][(Malformed(indexFile) /\ last'.op \in PublicOps) =>
          /\ last'.res \in {SerializationError, IoError}
          /\ indexFile' = indexFile
          /\ last'.op = "list_backups" => last'.val = <<>>
      ]_vars

\* create_backup, with no call of its own failing, has returned the error of the
\* malformed index, its subdirectory made; and the index still holds what it held.
C25_Witness ==
    /\ last.op = "create_backup"
    /\ last.fault = NoFault
    /\ last.res = SerializationError
    /\ Malformed(indexFile)
    /\ Uuid(nextId - 1) \in DOMAIN subdirs

(***************************************************************************)
(* Properties of the backup store when its file system calls fail.         *)
(***************************************************************************)

\* A create_backup that returned Ok added one entry under an id the index did not
\* hold, and left the entries the index held, the other subdirectories and the user's
\* files as they were.
CreateAddedOne ==
    LET before == IndexEntries(indexFile)
        after == IndexEntries(indexFile')
        id == last'.val.id
    IN  /\ id \notin DOMAIN before
        /\ DOMAIN after = DOMAIN before \cup {id}
        /\ after[id] = last'.val
        /\ \A other \in DOMAIN before : after[other] = before[other]
        /\ \A other \in DOMAIN subdirs :
              other \in DOMAIN subdirs' /\ subdirs'[other] = subdirs[other]
        /\ files' = files

\* C27: a create_backup that succeeds adds exactly one new entry to the index and
\* leaves every entry indexed before, every other backup subdirectory and the source
\* files unchanged; a create_backup that returns an error leaves the content of the
\* index unchanged.
C27_CreateFrame ==
    [][last'.op = "create_backup" =>
          /\ last'.res = Ok => CreateAddedOne
          /\ last'.res # Ok => indexFile' = indexFile
      ]_vars

\* The first half alone: the frame of a create_backup that succeeds.
C27_SuccessfulCreateFrame ==
    [][(last'.op = "create_backup" /\ last'.res = Ok) => CreateAddedOne]_vars

\* A create_backup that returned an error has left the entries of the index readable.
C27_FailedCreateKeepsEntries ==
    [][(last'.op = "create_backup" /\ last'.res # Ok) =>
          \A id \in DOMAIN IndexEntries(indexFile) :
              GetBackupEntryResult(indexFile', id, NoFault)
                  = GetBackupEntryResult(indexFile, id, NoFault)
      ]_vars

\* A second entry added beside the first.
C27_SecondEntryAdded ==
    /\ last.op = "create_backup" /\ last.res = Ok
    /\ Cardinality(DOMAIN Entries) = 2
    /\ Cardinality(DOMAIN subdirs) = 2

\* C11: in every reachable state, the states left by an operation that returned an error
\* partway through included, every entry of the index has its subdirectory <root>/<id>.
C11_IndexedHaveSubdir ==
    \A id \in DOMAIN Entries : id \in DOMAIN subdirs

\* The copies made of the regular files among the first n paths of a list: base name ->
\* bytes, the later of two files of one name winning.
CopiesOf(paths, n, fs) ==
    LET copied == {i \in 1..n : PathIsFile(fs, paths[i])}
        Latest(name) == CHOOSE i \in copied :
                            /\ FileName(paths[i]) = name
                            /\ \A j \in copied : FileName(paths[j]) = name => j <= i
    IN  [name \in {FileName(paths[i]) : i \in copied} |-> fs[paths[Latest(name)]]]
\* The create_backup that has just returned failed at the fs::copy of its k-th path.
CopyFailed(k) ==
    /\ last.op = "create_backup"
    /\ last.fault = Fault("copy", k)
    /\ last.res = IoError

\* C15 as claimed: a create_backup that fails at the copy of a file after the first
\* leaves the subdirectory with the files copied before the failure, and an entry for
\* that backup, partly written, in the index.
C15_PartialSnapshotIndexed ==
    \A k \in 2..(IF last.op = "create_backup" THEN Len(last.arg) ELSE 0) :
        CopyFailed(k) =>
            LET id == Uuid(nextId - 1)
            IN  /\ id \in DOMAIN subdirs
                /\ subdirs[id] = CopiesOf(last.arg, k - 1, files)
                /\ IndexExists(indexFile)
                /\ IndexParses(indexFile) => id \in DOMAIN Entries

\* C15 as amended: a create_backup that fails at the copy of a file after the first
\* returns the error and leaves the subdirectory with the files copied before the
\* failure; the index file is not touched and holds no entry for that backup.
C15_PartialSnapshotOrphaned ==
    [][\A k \in 2..(IF last'.op = "create_backup" THEN Len(last'.arg) ELSE 0) :
          CopyFailed(k)' =>
              LET id == Uuid(nextId)
              IN  /\ id \in DOMAIN subdirs'
                  /\ subdirs'[id] = CopiesOf(last'.arg, k - 1, files)
                  /\ \A o \in DOMAIN subdirs : o \in DOMAIN subdirs' /\ subdirs'[o] = subdirs[o]
                  /\ indexFile' = indexFile
                  /\ id \notin DOMAIN IndexEntries(indexFile')
                  /\ files' = files
      ]_vars

\* A create_backup of two files that failed at the second copy, the first copy left
\* behind.
C15_Witness ==
    /\ CopyFailed(2)
    /\ Uuid(nextId - 1) \in DOMAIN subdirs
    /\ subdirs[Uuid(nextId - 1)] # EmptyMap
    /\ Uuid(nextId - 1) \notin DOMAIN Entries

(***************************************************************************)
(* Properties of the backup store over the wider file system.              *)
(***************************************************************************)
\* The paths of a list that are regular files in fs, in the order of the list.
RegularFiles(paths, fs) ==
    LET IsFile(path) == PathIsFile(fs, path)
    IN  SelectSeq(paths, IsFile)

\* C14: create_backup(command, paths), no call of it failing, succeeds; the files of the
\* entry it returns are the paths of the list that exist and are regular files, in the
\* order of the list, one BackupFile each; missing paths and directories are skipped;
\* and the entry, its file list empty if no path qualifies, is in the index, where
\* get_backup_entry finds it with the description "Backup before executing: {command}".
C14_CreateRecordsRegularFiles ==
    last.op = "create_backup" =>
        LET entry == last.val
            expected == RegularFiles(last.arg, calls[Uuid(nextId - 1)])
        IN  /\ last.res = Ok
            /\ Len(entry.files) = Len(expected)
            /\ \A i \in 1..Len(expected) : entry.files[i].original_path = expected[i]
            /\ GetBackupEntryResult(indexFile, entry.id, NoFault) = [res |-> Ok, entry |-> entry]
            /\ entry.description = <<"Backup before executing: ", entry.command>>

\* A list of a directory and a regular file: the directory skipped, the file recorded.
C14_Witness ==
    /\ last.op = "create_backup"
    /\ Len(last.arg) = 2
    /\ calls[last.val.id][last.arg[1]] = Dir
    /\ Len(last.val.files) = 1
    /\ last.val.files[1].original_path = last.arg[2]

\* A list of which no path qualifies: an entry without files, indexed.
C14_EmptyEntryIndexed ==
    /\ last.op = "create_backup"
    /\ Len(last.arg) = 2
    /\ last.val.files = <<>>
    /\ last.val.id \in DOMAIN Entries

\* Two distinct paths of one base name, both regular files in fs.
SameNameFiles(p, q, fs) ==
    p # q /\ FileName(p) = FileName(q) /\ PathIsFile(fs, p) /\ PathIsFile(fs, q)
\* The entry of id was made from two such paths and its one backup copy is in place.
CollidingEntry(id) ==
    /\ id \in DOMAIN Entries
    /\ Len(Entries[id].files) = 2
    /\ SameNameFiles(Entries[id].files[1].original_path, Entries[id].files[2].original_path,
                     calls[id])
    /\ BackupPathExists(subdirs, Entries[id].files[2].backup_path)

\* C17: create_backup on two distinct existing paths of the same base name records both
\* with the same backup_path, the stored copy holding the bytes of the later path; a
\* later restore_backup writes the bytes of the later path to both original paths.
C17_LaterCopyWins ==
    /\ (/\ last.op = "create_backup"
        /\ Len(last.arg) = 2
        /\ SameNameFiles(last.arg[1], last.arg[2], calls[Uuid(nextId - 1)]))
       => /\ last.res = Ok
          /\ Len(last.val.files) = 2
          /\ last.val.files[1].original_path = last.arg[1]
          /\ last.val.files[2].original_path = last.arg[2]
          /\ last.val.files[1].backup_path = last.val.files[2].backup_path
          /\ BackupPathExists(subdirs, last.val.files[2].backup_path)
          /\ subdirs[last.val.id][FileName(last.arg[2])] = calls[last.val.id][last.arg[2]]
    /\ (last.op = "restore_backup" /\ last.res = Ok /\ CollidingEntry(last.arg))
       => LET entry == Entries[last.arg]
              later == calls[last.arg][entry.files[2].original_path]
          IN  /\ files[entry.files[1].original_path] = later
              /\ files[entry.files[2].original_path] = later

\* A restore that wrote the bytes of the later path over the different bytes of the
\* earlier one.
C17_Witness ==
    /\ last.op = "restore_backup"
    /\ last.res = Ok
    /\ CollidingEntry(last.arg)
    /\ LET entry == Entries[last.arg]
           first == entry.files[1].original_path
           second == entry.files[2].original_path
       IN  /\ calls[last.arg][first] # calls[last.arg][second]
           /\ last.val[first] = calls[last.arg][first]
           /\ files[first] = calls[last.arg][second]

\* The turns of the loop of restore_backup, over the files of an entry, at which the
\* backup copy exists.
Restorable(entry, dirs) ==
    {i \in 1..Len(entry.files) : BackupPathExists(dirs, entry.files[i].backup_path)}
\* The bytes of the backup copy of a BackupFile.
CopyBytes(file, dirs) == dirs[file.backup_path[1]][file.backup_path[2]]

\* C18: restore_backup of an id of the index returns success, whatever copies are
\* missing; every original path whose backup copy exists holds the bytes of the copy
\* afterwards, its parent directory existing; every BackupFile whose copy is missing is
\* warned of, in entry order, and changes nothing; and nothing else changes.
C18_RestoreSkipsMissing ==
    [][(last'.op = "restore_backup" /\ last'.arg \in DOMAIN IndexEntries(indexFile)) =>
        LET entry == IndexEntries(indexFile)[last'.arg]
            found == Restorable(entry, subdirs)
            missing == {i \in 1..Len(entry.files) : i \notin found}
            Missing(file) == ~BackupPathExists(subdirs, file.backup_path)
        IN  /\ last'.res = Ok
            /\ \A i \in found :
                  /\ files'[entry.files[i].original_path] = CopyBytes(entry.files[i], subdirs)
                  /\ files'[Parent(entry.files[i].original_path)] = Dir
            /\ \A path \in DOMAIN files :
                  (\A i \in found : path \notin {entry.files[i].original_path,
                                                  Parent(entry.files[i].original_path)})
                  => files'[path] = files[path]
            /\ Len(last'.warned) = Cardinality(missing)
            /\ last'.warned = [i \in 1..Len(last'.warned) |->
                                  SelectSeq(entry.files, Missing)[i].backup_path]
            /\ indexFile' = indexFile /\ subdirs' = subdirs
      ]_vars

\* A restore of two files: the copy of one missing and warned of, the other restored
\* into a directory that had been removed.
C18_Witness ==
    /\ last.op = "restore_backup"
    /\ last.res = Ok
    /\ Len(last.warned) = 1
    /\ \E i \in 1..Len(Entries[last.arg].files) :
          LET path == Entries[last.arg].files[i].original_path
          IN  /\ last.val[Parent(path)] = Absent
              /\ files[Parent(path)] = Dir
              /\ files[path] = calls[last.arg][path]

\* A restore of an entry with files, every copy of which is missing: success, and
\* nothing restored.
C18_AllMissing ==
    /\ last.op = "restore_backup"
    /\ last.res = Ok
    /\ Len(Entries[last.arg].files) = 2
    /\ Len(last.warned) = 2
    /\ files = last.val

(***************************************************************************)
(* Properties of the backup store shared by two processes.                 *)
(***************************************************************************)
\* The call of p has ended with success and has not yet returned.
Finished(p) == procs[p].pc = "done" /\ procs[p].res = Ok
\* The ids of the index as the call of p leaves it: those it read, with its own change.
LeftBy(p) ==
    IF procs[p].op = "create_backup" THEN DOMAIN procs[p].entries \cup {procs[p].id}
    ELSE DOMAIN procs[p].entries \ {procs[p].id}
\* The call of q added an entry that is not in the index, or removed one that is.
LostUpdate(q) ==
    \/ procs[q].op = "create_backup" /\ procs[q].id \notin DOMAIN Entries
    \/ procs[q].op = "delete_backup" /\ procs[q].id \in DOMAIN Entries

\* C13: when two processes have each ended a create_backup or delete_backup with success,
\* the index is what the later writer read with its own change applied, whatever the
\* other wrote in between: the other's update is lost exactly when the later writer read
\* the index before the other wrote it - and there is an interleaving where that happens.
C13_LaterWriterWins ==
    \A p, q \in Procs :
        (p # q /\ Finished(p) /\ Finished(q) /\ procs[p].latest) =>
            /\ IndexExists(indexFile) /\ IndexParses(indexFile)
            /\ DOMAIN Entries = LeftBy(p)
            /\ LostUpdate(q) <=>
                  \/ procs[q].op = "create_backup" /\ procs[q].id \notin LeftBy(p)
                  \/ procs[q].op = "delete_backup" /\ procs[q].id \in LeftBy(p)

\* Two create_backup calls that both ended with success, one entry missing from the index.
C13_Witness ==
    \E p, q \in Procs :
        /\ p # q /\ Finished(p) /\ Finished(q)
        /\ procs[p].op = "create_backup" /\ procs[q].op = "create_backup"
        /\ procs[q].id \notin DOMAIN Entries
        /\ procs[p].id \in DOMAIN Entries

\* A delete_backup and a create_backup that both ended with success, the deleted entry
\* still in the index.
C13_DeletedEntryBack ==
    \E p, q \in Procs :
        /\ p # q /\ Finished(p) /\ Finished(q)
        /\ procs[p].op = "create_backup" /\ procs[q].op = "delete_backup"
        /\ procs[q].id \in DOMAIN Entries
        /\ procs[q].id \notin DOMAIN subdirs

\* The digest recorded for a BackupFile is the digest of the bytes at its backup_path.
HashOfStoredCopy(file, dirs) ==
    /\ BackupPathExists(dirs, file.backup_path)
    /\ file.file_hash = Sha256Hex(dirs[file.backup_path[1]][file.backup_path[2]])

\* C16: when create_backup returns, the file_hash of every BackupFile it recorded is the
\* digest of the bytes stored at its backup_path, also when the source file is written
\* between the copy and the hash.
C16_HashOfStoredCopy ==
    \A p \in Procs :
        (Finished(p) /\ procs[p].op = "create_backup") =>
            \A i \in 1..Len(procs[p].backup_files) :
                HashOfStoredCopy(procs[p].backup_files[i], subdirs)

\* C16 for one process and lists with repeated base names: when create_backup has
\* returned, the file_hash of every BackupFile of the entry is the digest of the bytes
\* stored at its backup_path.
C16_HashOfStoredCopyRepeatedNames ==
    (last.op = "create_backup" /\ last.res = Ok) =>
        \A i \in 1..Len(last.val.files) : HashOfStoredCopy(last.val.files[i], subdirs)

\* The index a rewrite in progress started from, and the one it will leave.
Rewriting(p) == procs[p].pc \in {"add_create", "add_write", "remove_create", "remove_write"}
IndexBefore(p) == WriteIndex(procs[p].entries)
IndexAfter(p) ==
    IF procs[p].pc \in {"add_create", "add_write"}
    THEN AddToIndexWrite(procs[p].entries, EntryOf(procs[p]))
    ELSE RemoveFromIndexWrite(procs[p].entries, procs[p].id)

\* C29: a list_backups or get_backup_entry that runs while add_to_index or
\* remove_from_index rewrites the index returns what it would return on the whole index
\* from before the rewrite or on the whole index after it, never the failure to parse
\* an empty or truncated document.
C29_ReaderSeesWholeIndex ==
    [][\A p \in Writers :
          (Rewriting(p) /\ procs' = procs) =>
              /\ last'.op = "list_backups" =>
                    /\ last'.res = Ok
                    /\ last'.val \in {ListBackupsResult(IndexBefore(p), NoFault).list,
                                      ListBackupsResult(IndexAfter(p), NoFault).list}
              /\ last'.op = "get_backup_entry" =>
                    /\ last'.res # SerializationError
                    /\ last'.val \in {GetBackupEntryResult(IndexBefore(p), last'.arg, NoFault).entry,
                                      GetBackupEntryResult(IndexAfter(p), last'.arg, NoFault).entry}
      ]_vars

\* A read of the index while no rewrite is in progress returns the whole index.
C29_ReaderAloneSeesWholeIndex ==
    [][(\A p \in Procs : ~Rewriting(p)) =>
          /\ last'.op = "list_backups" => last'.res = Ok
          /\ last'.op = "get_backup_entry" => last'.res # SerializationError
      ]_vars

\* list_backups has failed to parse the index that a create_backup is rewriting.
C29_ReaderSawTruncated ==
    /\ last.op = "list_backups"
    /\ last.res = SerializationError
    /\ \E p \in Writers : procs[p].op = "create_backup" /\ procs[p].pc = "add_write"

====
